---- MODULE Spec2Model ----
(***************************************************************************)
(* Model of the chat backend: the history store adapter                    *)
(* (utils/cosmos_connection.py), the retry controller with its weak        *)
(* response classifier (utils/llm_invoke.py) and the request handlers      *)
(* (app.py).                                                               *)
(*                                                                         *)
(* Text is a sequence of character codes (ASCII), so that lower(), strip() *)
(* substring search and concatenation are computed, not assumed.           *)
(* An optional value (Python None or a value) is a sequence of length 0    *)
(* or 1.                                                                   *)
(***************************************************************************)
EXTENDS Integers, Sequences, FiniteSets, TLC

VARIABLES cosmos_enabled, container, clock, req, sample, verdict

vars == <<cosmos_enabled, container, clock, req, sample, verdict>>

None == <<>>
Some(x) == <<x>>

----------------------------------------------------------------------------
(* Text helpers: Python str operations on ASCII text.                      *)

\* str.lower() on one character
LowerChar(c) == IF c \in 65..90 THEN c + 32 ELSE c

\* str.lower()
lower(s) == [i \in 1..Len(s) |-> LowerChar(s[i])]

\* the characters str.strip() removes (ASCII whitespace)
IsSpace(c) == c \in {9, 10, 11, 12, 13, 28, 29, 30, 31, 32}

\* str.strip()
strip(s) ==
    LET keep == {i \in 1..Len(s) : ~IsSpace(s[i])}
    IN  IF keep = {} THEN <<>>
        ELSE LET lo == CHOOSE i \in keep : \A j \in keep : i <= j
                 hi == CHOOSE i \in keep : \A j \in keep : j <= i
             IN  SubSeq(s, lo, hi)

\* Python "p in s" on strings
Contains(s, p) ==
    \E i \in 0..(Len(s) - Len(p)) : SubSeq(s, i + 1, i + Len(p)) = p

----------------------------------------------------------------------------
(* The weak-response classifier of call_llm_async_with_retry.              *)

weak_response_phrases ==
    << <<105, 32, 100, 111, 110, 39, 116, 32, 107, 110, 111, 119>>,   \* "i don't know"
       <<105, 32, 100, 111, 32, 110, 111, 116, 32, 107, 110, 111, 119>>,   \* "i do not know"
       <<105, 32, 100, 111, 110, 39, 116, 32, 104, 97, 118, 101, 32, 105, 110, 102, 111, 114, 109, 97, 116, 105, 111, 110>>,   \* "i don't have information"
       <<105, 32, 99, 97, 110, 110, 111, 116, 32, 102, 105, 110, 100>>,   \* "i cannot find"
       <<105, 39, 109, 32, 110, 111, 116, 32, 115, 117, 114, 101>>,   \* "i'm not sure"
       <<105, 32, 100, 111, 110, 39, 116, 32, 115, 101, 101>>,   \* "i don't see"
       <<110, 111, 32, 105, 110, 102, 111, 114, 109, 97, 116, 105, 111, 110, 32, 97, 118, 97, 105, 108, 97, 98, 108, 101>>,   \* "no information available"
       <<105, 32, 100, 111, 110, 39, 116, 32, 104, 97, 118, 101, 32, 97, 99, 99, 101, 115, 115>>,   \* "i don't have access"
       <<105, 32, 99, 97, 110, 110, 111, 116, 32, 112, 114, 111, 118, 105, 100, 101>>,   \* "i cannot provide"
       <<105, 39, 109, 32, 117, 110, 97, 98, 108, 101, 32, 116, 111>>,   \* "i'm unable to"
       <<115, 111, 114, 114, 121, 44, 32, 105, 32, 100, 111, 110, 39, 116, 32, 104, 97, 118, 101>>,   \* "sorry, i don't have"
       <<105, 32, 100, 111, 110, 39, 116, 32, 104, 97, 118, 101, 32, 97, 110, 121, 32, 105, 110, 102, 111, 114, 109, 97, 116, 105, 111, 110>>,   \* "i don't have any information"
       <<105, 32, 99, 97, 110, 110, 111, 116, 32, 104, 101, 108, 112>>,   \* "i cannot help"
       <<105, 39, 109, 32, 115, 111, 114, 114, 121, 44, 32, 98, 117, 116, 32, 105, 32, 100, 111, 110, 39, 116>>,   \* "i'm sorry, but i don't"
       <<105, 32, 100, 111, 110, 39, 116, 32, 104, 97, 118, 101, 32, 115, 112, 101, 99, 105, 102, 105, 99, 32, 105, 110, 102, 111, 114, 109, 97, 116, 105, 111, 110>>,   \* "i don't have specific information"
       <<105, 32, 99, 97, 110, 110, 111, 116, 32, 108, 111, 99, 97, 116, 101>>,   \* "i cannot locate"
       <<105, 32, 100, 111, 110, 39, 116, 32, 102, 105, 110, 100>> >>   \* "i don't find"

substantive_markers ==
    << <<104, 111, 119, 101, 118, 101, 114>>,   \* "however"
       <<97, 108, 116, 104, 111, 117, 103, 104>>,   \* "although"
       <<98, 117, 116>>,   \* "but"
       <<98, 97, 115, 101, 100, 32, 111, 110>>,   \* "based on"
       <<97, 99, 99, 111, 114, 100, 105, 110, 103, 32, 116, 111>>,   \* "according to"
       <<116, 104, 101, 32, 100, 111, 99, 117, 109, 101, 110, 116>> >>   \* "the document"

WeakLenLimit == 150

\* contains_weak_response
contains_weak_response(response_content) ==
    LET response_lower == lower(response_content)
    IN  \E k \in 1..Len(weak_response_phrases) :
            Contains(response_lower, weak_response_phrases[k])

\* the classifier without the substantive-marker test
is_genuinely_weak_NoMarkerTest(response_content) ==
    /\ contains_weak_response(response_content)
    /\ Len(strip(response_content)) < WeakLenLimit

\* is_genuinely_weak
is_genuinely_weak(response_content) ==
    LET response_lower == lower(response_content)
    IN  /\ contains_weak_response(response_content)
        /\ Len(strip(response_content)) < WeakLenLimit
        /\ ~ \E k \in 1..Len(substantive_markers) :
                 Contains(response_lower, substantive_markers[k])

----------------------------------------------------------------------------
(* Sample responses for the classifier: padding, two fragments and a       *)
(* filler that brings the trimmed text to a target length.  Each fragment  *)
(* is tagged with what it contributes (a hedging phrase, a substantive     *)
(* marker), so the expected verdict is known from the construction.        *)

Fragments ==
    << [text |-> <<>>, hedge |-> FALSE, marker |-> FALSE],   \* ""
       [text |-> <<73, 39, 109, 32, 110, 111, 116, 32, 115, 117, 114, 101>>, hedge |-> TRUE, marker |-> FALSE],   \* "I'm not sure"
       [text |-> <<73, 32, 68, 79, 78, 39, 84, 32, 75, 78, 79, 87>>, hedge |-> TRUE, marker |-> FALSE],   \* "I DON'T KNOW"
       [text |-> <<83, 111, 114, 114, 121, 44, 32, 73, 32, 100, 111, 110, 39, 116, 32, 104, 97, 118, 101, 32, 97, 99, 99, 101, 115, 115>>, hedge |-> TRUE, marker |-> FALSE],   \* "Sorry, I don't have access"
       [text |-> <<73, 39, 109, 32, 115, 111, 114, 114, 121, 44, 32, 98, 117, 116, 32, 73, 32, 100, 111, 110, 39, 116>>, hedge |-> TRUE, marker |-> TRUE],   \* "I'm sorry, but I don't"
       [text |-> <<73, 32, 97, 109, 32, 110, 111, 116, 32, 115, 117, 114, 101>>, hedge |-> FALSE, marker |-> FALSE],   \* "I am not sure"
       [text |-> <<72, 111, 119, 101, 118, 101, 114, 44, 32>>, hedge |-> FALSE, marker |-> TRUE],   \* "However, "
       [text |-> <<65, 32, 98, 117, 116, 116, 111, 110, 58, 32>>, hedge |-> FALSE, marker |-> TRUE],   \* "A button: "
       [text |-> <<84, 104, 101, 32, 68, 111, 99, 117, 109, 101, 110, 116, 32, 115, 97, 121, 115, 32>>, hedge |-> FALSE, marker |-> TRUE],   \* "The Document says "
       [text |-> <<66, 97, 115, 101, 100, 32, 32, 111, 110, 32>>, hedge |-> FALSE, marker |-> FALSE] >>   \* "Based  on "

MaxPad == 1
MaxOver == 1

PadChars == {32, 10}   \* " ", "\n"

\* trimmed lengths aimed at: short ones and the ones around the limit
Targets == {1, 60} \cup (149..(150 + MaxOver))

Repeat(c, n) == [i \in 1..n |-> c]

\* the trimmed part: fragment f1, fragment f2, "x" * k, "."
Core(f1, f2, target) ==
    LET fixed == Fragments[f1].text \o Fragments[f2].text
        k == IF target - Len(fixed) - 1 > 0 THEN target - Len(fixed) - 1 ELSE 0
    IN  fixed \o Repeat(120, k) \o <<46>>

\* the length of the trimmed part, from the construction
CoreLen(f1, f2, target) ==
    LET fixed == Len(Fragments[f1].text) + Len(Fragments[f2].text)
    IN  IF target > fixed + 1 THEN target ELSE fixed + 1

MakeSample(c, lead, trail, f1, f2, target) ==
    [text    |-> Repeat(c, lead) \o Core(f1, f2, target) \o Repeat(c, trail),
     hedge   |-> Fragments[f1].hedge \/ Fragments[f2].hedge,
     marker  |-> Fragments[f1].marker \/ Fragments[f2].marker,
     trimmed |-> CoreLen(f1, f2, target)]

----------------------------------------------------------------------------
(* Texts used as inputs.                                                   *)

WeakText1 == <<73, 32, 100, 111, 110, 39, 116, 32, 107, 110, 111, 119, 46>>   \* "I don't know."
WeakText2 == <<73, 39, 109, 32, 110, 111, 116, 32, 115, 117, 114, 101>>   \* "I'm not sure"
GoodText == <<80, 97, 114, 105, 115, 46>>   \* "Paris."
HedgedText == <<72, 111, 119, 101, 118, 101, 114, 44, 32, 73, 39, 109, 32, 110, 111, 116, 32, 115, 117, 114, 101>>   \* "However, I'm not sure"
Timeout == <<116, 105, 109, 101, 111, 117, 116>>   \* "timeout"
ConnReset == <<99, 111, 110, 110, 101, 99, 116, 105, 111, 110, 32, 114, 101, 115, 101, 116>>   \* "connection reset"
Hello == <<72, 101, 108, 108, 111>>   \* "Hello"
Hi == <<72, 105>>   \* "Hi"

\* str(e) of the AttributeError raised by None.lower() (line 186)
NoneTypeError == <<39, 78, 111, 110, 101, 84, 121, 112, 101, 39, 32, 111, 98, 106, 101, 99, 116, 32, 104, 97, 115, 32, 110, 111, 32, 97, 116, 116, 114, 105, 98, 117, 116, 101, 32, 39, 108, 111, 119, 101, 114, 39>>

\* the first sentence of prompt_content (the system instruction)
prompt_content == <<89, 111, 117, 32, 97, 114, 101, 32, 97, 32, 104, 101, 108, 112, 102, 117, 108, 32, 97, 110, 100, 32, 107, 110, 111, 119, 108, 101, 100, 103, 101, 97, 98, 108, 101, 32, 100, 111, 99, 117, 109, 101, 110, 116, 32, 97, 115, 115, 105, 115, 116, 97, 110, 116, 32, 99, 104, 97, 116, 98, 111, 116, 46>>

WarmupQuery == <<87, 104, 97, 116, 32, 105, 115, 32, 116, 104, 105, 115, 32, 100, 111, 99, 117, 109, 101, 110, 116, 32, 97, 98, 111, 117, 116, 63>>   \* "What is this document about?"
WarmupSession == "warmup-session"
ErrorPrefix == <<69, 114, 114, 111, 114, 58, 32>>   \* "Error: "

\* str(e) of a failed store write
StoreFailure == <<115, 116, 111, 114, 101, 32, 117, 110, 97, 118, 97, 105, 108, 97, 98, 108, 101>>   \* "store unavailable"

Responses == {WeakText1, WeakText2, GoodText, HedgedText}
ChatResponses == {WeakText1, GoodText}
Errors == {Timeout, ConnReset}
ChatErrors == {Timeout}
Sessions == {"s1", "s2"}
UserMessages == {Hello}

Requests == {"r1", "r2"}
Callers == {"r1"}
MaxRetriesBound == 3

DefaultMaxRetries == 3
DefaultDelay == 2
WarmupMaxRetries == 1
ContextLimit == 5
DefaultHistoryLimit == 10
InfoLimit == 100

MaxStored == 4
MaxLimit == 3
Roles == {"user", "assistant"}

----------------------------------------------------------------------------
(* History store adapter (utils/cosmos_connection.py).                     *)

RECURSIVE InsertByTimestamp(_, _)
\* insert x after the items whose timestamp is <= its own (stable)
InsertByTimestamp(s, x) ==
    IF s = <<>> THEN <<x>>
    ELSE IF s[Len(s)].timestamp <= x.timestamp THEN Append(s, x)
    ELSE Append(InsertByTimestamp(SubSeq(s, 1, Len(s) - 1), x), s[Len(s)])

RECURSIVE SortByTimestamp(_)
\* sorted(items, key=lambda x: x["timestamp"])
SortByTimestamp(s) ==
    IF s = <<>> THEN <<>>
    ELSE InsertByTimestamp(SortByTimestamp(SubSeq(s, 1, Len(s) - 1)), s[Len(s)])

Reverse(s) == [i \in 1..Len(s) |-> s[Len(s) + 1 - i]]

\* SELECT TOP limit * FROM c WHERE c.sessionId = @sessionId
\* ORDER BY c.timestamp DESC
query_items(cont, session_id, limit) ==
    LET rows == SelectSeq(cont, LAMBDA c : c.sessionId = session_id)
        desc == Reverse(SortByTimestamp(rows))
    IN  SubSeq(desc, 1, IF limit < Len(desc) THEN limit ELSE Len(desc))

\* save that never writes
save_message_to_cosmos_Dropped(enabled, cont, now, session_id, role, content, ok) ==
    [container |-> cont, clock |-> IF enabled THEN now + 1 ELSE now, raised |-> FALSE,
     id |-> 0]

\* save that lets the failure of the store write escape
save_message_to_cosmos_Reraise(enabled, cont, now, session_id, role, content, ok) ==
    IF ~enabled THEN [container |-> cont, clock |-> now, raised |-> FALSE, id |-> 0]
    ELSE IF ok
         THEN [container |-> Append(cont, [id |-> Len(cont) + 1,
                                           sessionId |-> session_id,
                                           timestamp |-> now,
                                           role |-> role,
                                           content |-> content]),
               clock |-> now + 1, raised |-> FALSE, id |-> Len(cont) + 1]
         ELSE [container |-> cont, clock |-> now + 1, raised |-> TRUE, id |-> 0]

\* save_message_to_cosmos: ok says whether container.create_item succeeds,
\* now is datetime.utcnow().  The result is the store and the time
\* afterwards, whether an exception escaped to the caller, and the id of
\* the item written (0 when none was).
save_message_to_cosmos(enabled, cont, now, session_id, role, content, ok) ==
    IF ~enabled THEN [container |-> cont, clock |-> now, raised |-> FALSE, id |-> 0]
    ELSE IF ok
         THEN [container |-> Append(cont, [id |-> Len(cont) + 1,
                                           sessionId |-> session_id,
                                           timestamp |-> now,
                                           role |-> role,
                                           content |-> content]),
               clock |-> now + 1, raised |-> FALSE, id |-> Len(cont) + 1]
         ELSE [container |-> cont, clock |-> now + 1, raised |-> FALSE, id |-> 0]

\* the read that returns the rows as queried, newest first
get_last_messages_from_cosmos_NoSort(enabled, cont, session_id, limit, ok) ==
    IF ~enabled THEN <<>>
    ELSE IF ok /\ limit >= 0
         THEN query_items(cont, session_id, limit)
         ELSE <<>>

\* get_last_messages_from_cosmos: ok says whether the query succeeds
get_last_messages_from_cosmos(enabled, cont, session_id, limit, ok) ==
    IF ~enabled THEN <<>>
    ELSE IF ok /\ limit >= 0
         THEN SortByTimestamp(query_items(cont, session_id, limit))
         ELSE <<>>

\* a read that lets the failure of the query escape
fetch_recent_Reraise(enabled, cont, session_id, limit, ok) ==
    [session_id |-> session_id, limit |-> limit, ok |-> ok,
     messages |-> get_last_messages_from_cosmos(enabled, cont, session_id, limit, ok),
     raised |-> enabled /\ ~ok,
     contacted |-> enabled]

\* one call of get_last_messages_from_cosmos as its caller sees it: the
\* messages returned, whether an exception escaped, and whether
\* container.query_items was called
fetch_recent(enabled, cont, session_id, limit, ok) ==
    [session_id |-> session_id, limit |-> limit, ok |-> ok,
     messages |-> get_last_messages_from_cosmos(enabled, cont, session_id, limit, ok),
     raised |-> FALSE,
     contacted |-> enabled]

\* a store as earlier runs can have left it: n items in the order written
StoresOfLen(n) ==
    { [i \in 1..n |-> [id |-> i,
                       sessionId |-> f[i][1],
                       timestamp |-> i - 1,
                       role |-> f[i][2],
                       content |-> IF f[i][2] = "user" THEN Hello ELSE GoodText]] :
      f \in [1..n -> Sessions \X Roles] }

----------------------------------------------------------------------------
(* Retry controller: call_llm_async_with_retry (utils/llm_invoke.py).      *)
(* A request q is the frame of one handler invocation: the locals of the   *)
(* controller, its position pc, and a record of what was observed          *)
(* (outcomes of the completion calls and the prompts they were sent,       *)
(* sleeps, saves, reads of the history, what a read endpoint fetched).     *)

IdleReq ==
    [kind |-> "none", pc |-> "idle", session_id |-> "", user_input |-> <<>>,
     max_retries |-> 0, delay |-> 0, chat_prompt |-> <<>>, attempt |-> 0,
     last_response |-> None, last_error |-> None,
     outcomes |-> <<>>, sleeps |-> <<>>, saves |-> <<>>,
     cosmos_messages |-> <<>>, history_reads |-> 0, prompts |-> <<>>,
     fallback |-> FALSE, fetched |-> None,
     result |-> None, http |-> None]

\* "return v" of the controller
Return(q, v) ==
    [q EXCEPT !.result = Some([kind |-> "return", value |-> v]), !.pc = "finished"]

\* "raise e" of the controller
Raise(q, e) ==
    [q EXCEPT !.result = Some([kind |-> "raise", value |-> Some(e)]), !.pc = "finished"]

\* lines 220-227, after the loop
AfterLoop(q) ==
    LET q1 == [q EXCEPT !.fallback = TRUE]
    IN  IF q.last_response # None /\ q.last_response[1] # <<>>
        THEN Return(q1, q.last_response)
        ELSE IF q.last_error # None
             THEN Raise(q1, q.last_error[1])
             ELSE Return(q1, None)

\* line 110, "for attempt in range(max_retries)", up to the next await
LoopHead(q) ==
    IF q.attempt < q.max_retries
    THEN [q EXCEPT !.pc = IF q.attempt > 0 THEN "sleep" ELSE "call"]
    ELSE AfterLoop(q)

\* lines 80-103: the prompt, assembled from the stored history
BuildPrompt(enabled, cont, session_id, user_input, qok) ==
    LET cosmos_messages ==
            get_last_messages_from_cosmos(enabled, cont, session_id, ContextLimit, qok)
    IN  <<[role |-> "system", content |-> prompt_content]>>
        \o [i \in 1..Len(cosmos_messages) |->
               [role |-> cosmos_messages[i].role,
                content |-> cosmos_messages[i].content]]
        \o <<[role |-> "user", content |-> user_input]>>

\* lines 39-110: entry of the controller up to its first await
call_llm_async_with_retry(q, enabled, cont, qok) ==
    LoopHead([q EXCEPT !.cosmos_messages =
                           get_last_messages_from_cosmos(enabled, cont, q.session_id,
                                                         ContextLimit, qok),
                       !.history_reads = @ + 1,
                       !.chat_prompt =
                           BuildPrompt(enabled, cont, q.session_id, q.user_input, qok),
                       !.attempt = 0,
                       !.last_response = None,
                       !.last_error = None])

\* the response branch that accepts whatever the first completion returns
OnResponse_AcceptFirst(q, response_content) ==
    Return(q, Some(response_content))

\* the response branch that retries on any response while attempts remain
OnResponse_RetryAnyResponse(q, response_content) ==
    IF q.attempt < q.max_retries - 1
    THEN LoopHead([q EXCEPT !.last_response = Some(response_content),
                            !.attempt = @ + 1])
    ELSE Return(q, Some(response_content))

\* the response branch that raises an error recorded by an earlier attempt
OnResponse_RaiseStaleError(q, response_content) ==
    IF q.last_error # None
    THEN Raise(q, q.last_error[1])
    ELSE IF q.attempt < q.max_retries - 1 /\ is_genuinely_weak(response_content)
         THEN LoopHead([q EXCEPT !.last_response = Some(response_content),
                                 !.attempt = @ + 1])
         ELSE Return(q, Some(response_content))

\* the response branch that feeds a weak response back into the prompt
OnResponse_AppendsWeak(q, response_content) ==
    IF q.attempt < q.max_retries - 1 /\ is_genuinely_weak(response_content)
    THEN LoopHead([q EXCEPT !.last_response = Some(response_content),
                            !.chat_prompt =
                                Append(@, [role |-> "assistant",
                                           content |-> response_content]),
                            !.attempt = @ + 1])
    ELSE Return(q, Some(response_content))

\* lines 186-208: a completion returned response_content
OnResponse(q, response_content) ==
    IF q.attempt < q.max_retries - 1 /\ is_genuinely_weak(response_content)
    THEN LoopHead([q EXCEPT !.last_response = Some(response_content),
                            !.attempt = @ + 1])
    ELSE Return(q, Some(response_content))

\* the error branch that raises at once, without retrying
OnError_RaiseFirst(q, e) ==
    Raise([q EXCEPT !.last_error = Some(e)], e)

\* the error branch that retries without consuming an attempt
OnError_NoAdvance(q, e) ==
    IF q.attempt < q.max_retries - 1
    THEN LoopHead([q EXCEPT !.last_error = Some(e)])
    ELSE Raise([q EXCEPT !.last_error = Some(e)], e)

\* the error branch that never raises inside the loop and leaves the last
\* error to the code after the loop
OnError_FallsThrough(q, e) ==
    LoopHead([q EXCEPT !.last_error = Some(e), !.attempt = @ + 1])

\* lines 210-218: the attempt raised e
OnError(q, e) ==
    IF q.attempt < q.max_retries - 1
    THEN LoopHead([q EXCEPT !.last_error = Some(e), !.attempt = @ + 1])
    ELSE Raise([q EXCEPT !.last_error = Some(e)], e)

----------------------------------------------------------------------------
(* Request handlers (app.py) and warm-up: what runs, without an await,     *)
(* once the controller has returned or raised.                             *)

\* what a handler observed of one call of save_message_to_cosmos: ok is
\* whether the store accepted the write, raised whether the call raised,
\* id the item written (0 when none was)
SaveRecord(role, content, ok, s) ==
    [role |-> role, content |-> content, ok |-> ok, raised |-> s.raised,
     id |-> s.id]

HttpOk(response, session_id) ==
    [status |-> 200, response |-> Some(response), detail |-> None,
     session_id |-> session_id, success |-> TRUE]

HttpError(detail) ==
    [status |-> 500, response |-> None, detail |-> Some(detail),
     session_id |-> "", success |-> FALSE]

HttpWarmup(success) ==
    [status |-> 200, response |-> None, detail |-> None,
     session_id |-> "", success |-> success]

HttpHistory(messages, session_id) ==
    [status |-> 200, messages |-> messages, session_id |-> session_id]

HttpInfo(session_id, enabled, message_count) ==
    [status |-> 200, session_id |-> session_id, cosmos_enabled |-> enabled,
     message_count |-> message_count]

HttpCleared(session_id) ==
    [status |-> 200, session_id |-> session_id, success |-> TRUE]

HttpNewSession(new_session_id) ==
    [status |-> 200, session_id |-> new_session_id]

\* get_session_history, app.py lines 118-132
get_session_history(q, enabled, cont, session_id, limit, ok) ==
    IF ~enabled
    THEN [q EXCEPT !.pc = "done", !.http = Some(HttpHistory(<<>>, session_id))]
    ELSE LET f == fetch_recent(enabled, cont, session_id, limit, ok)
             messages == [i \in 1..Len(f.messages) |->
                             [role |-> f.messages[i].role,
                              content |-> f.messages[i].content]]
         IN  IF f.raised
             THEN [q EXCEPT !.pc = "done", !.fetched = Some(f),
                            !.http = Some(HttpError(StoreFailure))]
             ELSE [q EXCEPT !.pc = "done", !.fetched = Some(f),
                            !.http = Some(HttpHistory(messages, session_id))]

\* get_session_info, app.py lines 100-115
get_session_info(q, enabled, cont, session_id, ok) ==
    IF ~enabled
    THEN [q EXCEPT !.pc = "done", !.http = Some(HttpInfo(session_id, enabled, 0))]
    ELSE LET f == fetch_recent(enabled, cont, session_id, InfoLimit, ok)
         IN  IF f.raised
             THEN [q EXCEPT !.pc = "done", !.fetched = Some(f),
                            !.http = Some(HttpError(StoreFailure))]
             ELSE [q EXCEPT !.pc = "done", !.fetched = Some(f),
                            !.http = Some(HttpInfo(session_id, enabled,
                                                   Len(f.messages)))]

\* the except branch that stores the bare error text under the role "error"
ChatExcept_RoleError(q, enabled, cont, now, e, ok) ==
    LET s == save_message_to_cosmos(enabled, cont, now, q.session_id, "error", e, ok)
        q1 == [q EXCEPT !.saves = Append(@, SaveRecord("error", e, ok, s))]
    IN  [req |-> [q1 EXCEPT !.pc = "done", !.http = Some(HttpError(e))],
         container |-> s.container, clock |-> s.clock]

\* chat, lines 93-97: the except branch.  An exception escaping from the
\* save of the error message leaves the handler (pc "crashed").
ChatExcept(q, enabled, cont, now, e, ok) ==
    LET error_message == ErrorPrefix \o e
        s == save_message_to_cosmos(enabled, cont, now, q.session_id,
                                    "assistant", error_message, ok)
        q1 == [q EXCEPT !.saves = Append(@, SaveRecord("assistant", error_message, ok, s))]
    IN  [req |-> IF s.raised
                 THEN [q1 EXCEPT !.pc = "crashed"]
                 ELSE [q1 EXCEPT !.pc = "done",
                                 !.http = Some(HttpError(error_message))],
         container |-> s.container, clock |-> s.clock]

\* the success branch that answers without saving the response
ChatReturn_NoSave(q, enabled, cont, now, response, ok) ==
    [req |-> [q EXCEPT !.pc = "done",
                       !.http = Some(HttpOk(response, q.session_id))],
     container |-> cont, clock |-> now]

\* chat, lines 88-91: the controller returned response
ChatReturn(q, enabled, cont, now, response, ok) ==
    LET s == save_message_to_cosmos(enabled, cont, now, q.session_id,
                                    "assistant", response, ok)
        q1 == [q EXCEPT !.saves = Append(@, SaveRecord("assistant", response, ok, s))]
    IN  IF s.raised
        THEN ChatExcept(q1, enabled, s.container, s.clock, StoreFailure, ok)
        ELSE [req |-> [q1 EXCEPT !.pc = "done",
                                 !.http = Some(HttpOk(response, q.session_id))],
              container |-> s.container, clock |-> s.clock]

\* warm_up_search_index and warm_up_endpoint
WarmupFinish(q) ==
    LET success == (q.result[1].kind = "return")
    IN  [q EXCEPT !.pc = "done", !.http = Some(HttpWarmup(success))]

\* the caller's continuation once the controller has finished
Finish(q, enabled, cont, now, ok) ==
    IF q.pc # "finished"
    THEN [req |-> q, container |-> cont, clock |-> now]
    ELSE IF q.kind = "chat"
         THEN IF q.result[1].kind = "return"
              THEN ChatReturn(q, enabled, cont, now, q.result[1].value[1], ok)
              ELSE ChatExcept(q, enabled, cont, now, q.result[1].value[1], ok)
         ELSE IF q.kind = "warmup"
              THEN [req |-> WarmupFinish(q), container |-> cont, clock |-> now]
              ELSE [req |-> [q EXCEPT !.pc = "done"],
                    container |-> cont, clock |-> now]

----------------------------------------------------------------------------
(* Actions.                                                                *)

Commit(r, f) ==
    /\ req' = [req EXCEPT ![r] = f.req]
    /\ container' = f.container
    /\ clock' = f.clock

\* an admission that waits while another turn of the session is in flight
ChatAdmitted_SessionLock(r, session_id) ==
    /\ req[r].pc = "idle"
    /\ \A o \in Requests \ {r} :
           ~(req[o].session_id = session_id /\ req[o].pc \in {"call", "sleep"})

\* app.py lines 79-83: when the handler of a new chat request starts to
\* run; it takes no lock and looks at no other request
ChatAdmitted(r, session_id) ==
    req[r].pc = "idle"

\* POST /chat up to the first completion call: save the user message,
\* assemble the prompt
ChatStart(r, session_id, message, ok, qok) ==
    /\ ChatAdmitted(r, session_id)
    /\ LET s == save_message_to_cosmos(cosmos_enabled, container, clock,
                                       session_id, "user", message, ok)
           q0 == [IdleReq EXCEPT !.kind = "chat",
                                 !.session_id = session_id,
                                 !.user_input = message,
                                 !.max_retries = DefaultMaxRetries,
                                 !.delay = DefaultDelay,
                                 !.saves = <<SaveRecord("user", message, ok, s)>>]
       IN  IF s.raised
           THEN Commit(r, ChatExcept(q0, cosmos_enabled, s.container, s.clock,
                                     StoreFailure, ok))
           ELSE Commit(r, Finish(call_llm_async_with_retry(q0, cosmos_enabled,
                                                           s.container, qok),
                                 cosmos_enabled, s.container, s.clock, ok))
    /\ UNCHANGED <<cosmos_enabled, sample, verdict>>

\* warm-up that calls the controller with its default max_retries
WarmupStart_DefaultRetries(r, qok) ==
    /\ req[r].pc = "idle"
    /\ LET q0 == [IdleReq EXCEPT !.kind = "warmup",
                                 !.session_id = WarmupSession,
                                 !.user_input = WarmupQuery,
                                 !.max_retries = DefaultMaxRetries,
                                 !.delay = DefaultDelay]
       IN  Commit(r, Finish(call_llm_async_with_retry(q0, cosmos_enabled,
                                                       container, qok),
                            cosmos_enabled, container, clock, TRUE))
    /\ UNCHANGED <<cosmos_enabled, sample, verdict>>

\* POST /warm-up up to the completion call
WarmupStart(r, qok) ==
    /\ req[r].pc = "idle"
    /\ LET q0 == [IdleReq EXCEPT !.kind = "warmup",
                                 !.session_id = WarmupSession,
                                 !.user_input = WarmupQuery,
                                 !.max_retries = WarmupMaxRetries,
                                 !.delay = DefaultDelay]
       IN  Commit(r, Finish(call_llm_async_with_retry(q0, cosmos_enabled,
                                                       container, qok),
                            cosmos_enabled, container, clock, TRUE))
    /\ UNCHANGED <<cosmos_enabled, sample, verdict>>

\* a direct call of call_llm_async_with_retry(user_input, session_id, max_retries)
CallStart(r, session_id, message, max_retries, qok) ==
    /\ req[r].pc = "idle"
    /\ LET q0 == [IdleReq EXCEPT !.kind = "call",
                                 !.session_id = session_id,
                                 !.user_input = message,
                                 !.max_retries = max_retries,
                                 !.delay = DefaultDelay]
       IN  Commit(r, Finish(call_llm_async_with_retry(q0, cosmos_enabled,
                                                       container, qok),
                            cosmos_enabled, container, clock, TRUE))
    /\ UNCHANGED <<cosmos_enabled, sample, verdict>>

\* a delay that grows with the attempt index
Sleep_Backoff(r) ==
    /\ req[r].pc = "sleep"
    /\ req' = [req EXCEPT ![r].sleeps =
                              Append(@, [attempt |-> req[r].attempt,
                                         seconds |-> req[r].delay * req[r].attempt]),
                          ![r].pc = "call"]
    /\ UNCHANGED <<cosmos_enabled, container, clock, sample, verdict>>

\* lines 115-117: await asyncio.sleep(delay)
Sleep(r) ==
    /\ req[r].pc = "sleep"
    /\ req' = [req EXCEPT ![r].sleeps =
                              Append(@, [attempt |-> req[r].attempt,
                                         seconds |-> req[r].delay]),
                          ![r].pc = "call"]
    /\ UNCHANGED <<cosmos_enabled, container, clock, sample, verdict>>

\* lines 121-208: the completion returns the text response_content
CompleteOk(r, response_content, ok) ==
    /\ req[r].pc = "call"
    /\ LET q == [req[r] EXCEPT !.outcomes =
                     Append(@, [kind |-> "text", value |-> response_content]),
                                !.prompts = Append(@, req[r].chat_prompt)]
       IN  Commit(r, Finish(OnResponse(q, response_content),
                            cosmos_enabled, container, clock, ok))
    /\ UNCHANGED <<cosmos_enabled, sample, verdict>>

\* lines 121-186 and 210-218: the completion returns no content (None),
\* response_content.lower() raises AttributeError
CompleteNone(r, ok) ==
    /\ req[r].pc = "call"
    /\ LET q == [req[r] EXCEPT !.outcomes =
                     Append(@, [kind |-> "none", value |-> <<>>]),
                                !.prompts = Append(@, req[r].chat_prompt)]
       IN  Commit(r, Finish(OnError(q, NoneTypeError),
                            cosmos_enabled, container, clock, ok))
    /\ UNCHANGED <<cosmos_enabled, sample, verdict>>

\* lines 121 and 210-218: the completion call raises e
CompleteFail(r, e, ok) ==
    /\ req[r].pc = "call"
    /\ LET q == [req[r] EXCEPT !.outcomes =
                     Append(@, [kind |-> "error", value |-> e]),
                                !.prompts = Append(@, req[r].chat_prompt)]
       IN  Commit(r, Finish(OnError(q, e),
                            cosmos_enabled, container, clock, ok))
    /\ UNCHANGED <<cosmos_enabled, sample, verdict>>

\* GET /session/{session_id}/history
SessionHistory(r, session_id, limit, qok) ==
    /\ req[r].pc = "idle"
    /\ req' = [req EXCEPT ![r] =
                  get_session_history([IdleReq EXCEPT !.kind = "history",
                                                      !.session_id = session_id],
                                      cosmos_enabled, container, session_id, limit, qok)]
    /\ UNCHANGED <<cosmos_enabled, container, clock, sample, verdict>>

\* GET /session/{session_id}/info
SessionInfo(r, session_id, qok) ==
    /\ req[r].pc = "idle"
    /\ req' = [req EXCEPT ![r] =
                  get_session_info([IdleReq EXCEPT !.kind = "info",
                                                   !.session_id = session_id],
                                   cosmos_enabled, container, session_id, qok)]
    /\ UNCHANGED <<cosmos_enabled, container, clock, sample, verdict>>

\* clear that deletes the session's messages from the store
ClearSession_Deletes(r, session_id) ==
    /\ req[r].pc = "idle"
    /\ req' = [req EXCEPT ![r] = [IdleReq EXCEPT !.kind = "clear",
                                                 !.session_id = session_id,
                                                 !.pc = "done",
                                                 !.http = Some(HttpCleared(session_id))]]
    /\ container' = SelectSeq(container, LAMBDA c : c.sessionId # session_id)
    /\ UNCHANGED <<cosmos_enabled, clock, sample, verdict>>

\* POST /session/{session_id}/clear: answers, deletes nothing
ClearSession(r, session_id) ==
    /\ req[r].pc = "idle"
    /\ req' = [req EXCEPT ![r] = [IdleReq EXCEPT !.kind = "clear",
                                                 !.session_id = session_id,
                                                 !.pc = "done",
                                                 !.http = Some(HttpCleared(session_id))]]
    /\ UNCHANGED <<cosmos_enabled, container, clock, sample, verdict>>

\* GET /session/new: new_session_id is the value of uuid.uuid4()
NewSession(r, new_session_id) ==
    /\ req[r].pc = "idle"
    /\ req' = [req EXCEPT ![r] = [IdleReq EXCEPT !.kind = "new",
                                                 !.pc = "done",
                                                 !.http = Some(HttpNewSession(new_session_id))]]
    /\ UNCHANGED <<cosmos_enabled, container, clock, sample, verdict>>

\* a direct call of get_last_messages_from_cosmos(session_id, limit)
FetchRecent(r, session_id, limit, qok) ==
    /\ req[r].pc = "idle"
    /\ req' = [req EXCEPT ![r] =
                  [IdleReq EXCEPT !.kind = "fetch",
                                  !.session_id = session_id,
                                  !.pc = "done",
                                  !.fetched = Some(fetch_recent(cosmos_enabled, container,
                                                                session_id, limit, qok))]]
    /\ UNCHANGED <<cosmos_enabled, container, clock, sample, verdict>>

\* the classifier applied to a sample response
Classify(c, lead, trail, f1, f2, target) ==
    /\ sample = None
    /\ \A r \in Requests : req[r].pc = "idle"
    /\ sample' = Some(MakeSample(c, lead, trail, f1, f2, target))
    /\ verdict' = is_genuinely_weak(sample'[1].text)
    /\ UNCHANGED <<cosmos_enabled, container, clock, req>>

----------------------------------------------------------------------------
(* Specifications.                                                         *)

Init ==
    /\ cosmos_enabled \in BOOLEAN
    /\ container = <<>>
    /\ clock = 0
    /\ req = [r \in Requests |-> IdleReq]
    /\ sample = None
    /\ verdict = FALSE

\* the service: chat turns and warm-up, concurrently; the completion client
\* answers with a text or raises
Next ==
    \/ \E r \in Requests, session_id \in Sessions, message \in UserMessages,
          ok \in BOOLEAN, qok \in BOOLEAN :
           ChatStart(r, session_id, message, ok, qok)
    \/ \E r \in Requests, qok \in BOOLEAN : WarmupStart(r, qok)
    \/ \E r \in Requests : Sleep(r)
    \/ \E r \in Requests, response_content \in ChatResponses, ok \in BOOLEAN :
           CompleteOk(r, response_content, ok)
    \/ \E r \in Requests, e \in ChatErrors, ok \in BOOLEAN : CompleteFail(r, e, ok)
    \/ \E r \in Requests, session_id \in Sessions,
          limit \in {1, DefaultHistoryLimit}, qok \in BOOLEAN :
           SessionHistory(r, session_id, limit, qok)
    \/ \E r \in Requests, session_id \in Sessions, qok \in BOOLEAN :
           SessionInfo(r, session_id, qok)
    \/ \E r \in Requests, session_id \in Sessions : ClearSession(r, session_id)
    \/ \E r \in Requests, new_session_id \in Sessions : NewSession(r, new_session_id)

Spec == Init /\ [][Next]_vars

\* the retry controller called on its own, with any max_retries
NextRetry ==
    \/ \E r \in Callers, session_id \in Sessions, message \in UserMessages,
          max_retries \in 0..MaxRetriesBound, qok \in BOOLEAN :
           CallStart(r, session_id, message, max_retries, qok)
    \/ \E r \in Callers : Sleep(r)
    \/ \E r \in Callers, response_content \in Responses :
           CompleteOk(r, response_content, TRUE)
    \/ \E r \in Callers : CompleteNone(r, TRUE)
    \/ \E r \in Callers, e \in Errors : CompleteFail(r, e, TRUE)

SpecRetry == Init /\ [][NextRetry]_vars

\* lines 115-186: an awaited completion call ends, with a text, with no
\* content, or with an error
Completes(r) ==
    \/ \E response_content \in Responses : CompleteOk(r, response_content, TRUE)
    \/ CompleteNone(r, TRUE)
    \/ \E e \in Errors : CompleteFail(r, e, TRUE)

\* the retry controller under an event loop in which every awaited delay
\* and every awaited completion call ends
SpecRetryLive ==
    /\ SpecRetry
    /\ \A r \in Callers : WF_vars(Sleep(r)) /\ WF_vars(Completes(r))

\* the history reads on their own, over the stores earlier runs can have left
InitStore ==
    /\ cosmos_enabled \in BOOLEAN
    /\ \E n \in 0..MaxStored : container \in StoresOfLen(n)
    /\ clock = Len(container)
    /\ req = [r \in Requests |-> IdleReq]
    /\ sample = None
    /\ verdict = FALSE

NextStore ==
    \/ \E r \in Callers, session_id \in Sessions, limit \in 0..MaxLimit,
          qok \in BOOLEAN :
           FetchRecent(r, session_id, limit, qok)
    \/ \E r \in Callers, session_id \in Sessions, limit \in 0..MaxLimit,
          qok \in BOOLEAN :
           SessionHistory(r, session_id, limit, qok)
    \/ \E r \in Callers, session_id \in Sessions, qok \in BOOLEAN :
           SessionInfo(r, session_id, qok)

SpecStore == InitStore /\ [][NextStore]_vars

\* the classifier on its own
NextClassify ==
    \E c \in PadChars, lead \in 0..MaxPad, trail \in 0..MaxPad,
       f1 \in 1..Len(Fragments), f2 \in 1..Len(Fragments), target \in Targets :
        Classify(c, lead, trail, f1, f2, target)

SpecClassify == Init /\ [][NextClassify]_vars

----------------------------------------------------------------------------
(* Properties.                                                             *)

WeakTexts == {WeakText1, WeakText2}
NonWeakTexts == {GoodText, HedgedText}

HasResult(q) == q.result # None
Returned(q) == HasResult(q) /\ q.result[1].kind = "return"
Raised(q) == HasResult(q) /\ q.result[1].kind = "raise"
Calls(q) == Len(q.outcomes)
LastOutcome(q) == q.outcomes[Len(q.outcomes)]
AllOutcomes(q, kind, values) ==
    \A i \in 1..Len(q.outcomes) :
        q.outcomes[i].kind = kind /\ q.outcomes[i].value \in values

\* C1: in a call with max_retries >= 1, once some attempt has produced a
\* response text, the call returns a response text and does not raise,
\* whatever the later attempts do.
C1_CapturedResponsePreferred ==
    \A r \in Requests :
        LET q == req[r]
        IN  (/\ HasResult(q)
             /\ q.max_retries >= 1
             /\ \E i \in 1..Len(q.outcomes) : q.outcomes[i].kind = "text")
            => (Returned(q) /\ q.result[1].value # None)

\* C2: when every completion call returns a genuinely weak response, a call
\* with max_retries = N >= 1 ends after exactly N completion calls and N-1
\* delays, returning the weak response of the final attempt.
C2_AlwaysWeak ==
    \A r \in Requests :
        LET q == req[r]
        IN  (HasResult(q) /\ q.max_retries >= 1 /\ AllOutcomes(q, "text", WeakTexts))
            => /\ Calls(q) = q.max_retries
               /\ Len(q.sleeps) = q.max_retries - 1
               /\ Returned(q)
               /\ q.result[1].value = Some(LastOutcome(q).value)

C2_Witness ==
    \E r \in Requests :
        /\ req[r].max_retries = 3
        /\ Returned(req[r])
        /\ req[r].outcomes = << [kind |-> "text", value |-> WeakText1],
                                [kind |-> "text", value |-> WeakText1],
                                [kind |-> "text", value |-> WeakText2] >>
        /\ req[r].result[1].value = Some(WeakText2)
        /\ Len(req[r].sleeps) = 2

\* C3: when every completion call raises, a call with max_retries = N >= 1
\* ends after exactly N completion calls by raising the error of the N-th
\* attempt; it returns no value and raises no earlier error.
C3_AlwaysRaises ==
    \A r \in Requests :
        LET q == req[r]
        IN  (HasResult(q) /\ q.max_retries >= 1 /\ AllOutcomes(q, "error", Errors))
            => /\ Calls(q) = q.max_retries
               /\ Raised(q)
               /\ q.result[1].value = Some(LastOutcome(q).value)

C3_Witness ==
    \E r \in Requests :
        /\ req[r].max_retries = 3
        /\ Raised(req[r])
        /\ req[r].outcomes = << [kind |-> "error", value |-> Timeout],
                                [kind |-> "error", value |-> Timeout],
                                [kind |-> "error", value |-> ConnReset] >>
        /\ req[r].result[1].value = Some(ConnReset)

\* C4: when an attempt that is not the last raises and a later attempt
\* returns a non-weak response, the call returns that response and raises
\* none of the earlier errors.
C4_RecoversAfterErrors ==
    \A r \in Requests :
        LET q == req[r]
        IN  \A i, j \in 1..Len(q.outcomes) :
                (/\ HasResult(q)
                 /\ i < j
                 /\ q.outcomes[i].kind = "error"
                 /\ q.outcomes[j].kind = "text"
                 /\ q.outcomes[j].value \in NonWeakTexts)
                => /\ Returned(q)
                   /\ q.result[1].value = Some(q.outcomes[j].value)

C4_Witness ==
    \E r \in Requests :
        /\ req[r].max_retries = 3
        /\ req[r].outcomes = << [kind |-> "error", value |-> Timeout],
                                [kind |-> "error", value |-> ConnReset],
                                [kind |-> "text", value |-> GoodText] >>
        /\ Returned(req[r])
        /\ req[r].result[1].value = Some(GoodText)

\* C5: a completion call that returns a non-weak response is the last one of
\* its call: that response is returned, and no completion call and no delay
\* follows; a non-weak first response gives one attempt and no delay.
C5_AcceptsNonWeak ==
    \A r \in Requests :
        LET q == req[r]
        IN  \A i \in 1..Len(q.outcomes) :
                (q.outcomes[i].kind = "text" /\ q.outcomes[i].value \in NonWeakTexts)
                => /\ i = Len(q.outcomes)
                   /\ Returned(q)
                   /\ q.result[1].value = Some(q.outcomes[i].value)
                   /\ Len(q.sleeps) = i - 1
                   /\ q.pc \notin {"call", "sleep"}

C5_Witness ==
    \E r \in Requests :
        /\ req[r].max_retries = 3
        /\ req[r].outcomes = << [kind |-> "text", value |-> HedgedText] >>
        /\ Returned(req[r])
        /\ req[r].result[1].value = Some(HedgedText)
        /\ req[r].sleeps = <<>>

\* C6: the classifier calls a response genuinely weak exactly when it has a
\* hedging phrase, its trimmed length is under 150, and it has no
\* substantive marker; so a response with a substantive marker is never
\* weak.
C6_Classifier ==
    sample # None =>
        /\ verdict = (/\ sample[1].hedge
                      /\ sample[1].trimmed < 150
                      /\ ~sample[1].marker)
        /\ (sample[1].marker => ~verdict)

C6_Witness ==
    /\ sample # None
    /\ sample[1].hedge
    /\ sample[1].marker
    /\ sample[1].trimmed < 150
    /\ Len(sample[1].text) > sample[1].trimmed
    /\ ~verdict

IsStored(session_id, role, content) ==
    \E i \in 1..Len(container) :
        /\ container[i].sessionId = session_id
        /\ container[i].role = role
        /\ container[i].content = content

C8_UserStoredBeforeCall ==
    \A r \in Requests :
        LET q == req[r]
        IN  (q.kind = "chat" /\ q.pc = "call")
            => IsStored(q.session_id, "user", q.user_input)

\* C8, amended: whenever a chat turn is at a completion call, save has been
\* called for the user message, and if the store is enabled and accepted
\* that write the store holds a "user" Message with the turn's session id
\* and content.
C8_UserSavedBeforeCall ==
    \A r \in Requests :
        LET q == req[r]
        IN  (q.kind = "chat" /\ q.pc = "call")
            => /\ Len(q.saves) = 1
               /\ q.saves[1].role = "user"
               /\ q.saves[1].content = q.user_input
               /\ (cosmos_enabled /\ q.saves[1].ok)
                      => IsStored(q.session_id, "user", q.user_input)

C8_Witness ==
    \E r \in Requests :
        /\ req[r].kind = "chat"
        /\ req[r].pc = "call"
        /\ req[r].outcomes = <<>>
        /\ cosmos_enabled
        /\ req[r].saves[1].ok
        /\ IsStored(req[r].session_id, "user", req[r].user_input)

\* a "user" Message and a later outcome Message of the session are stored
TurnStored(q) ==
    \E i, j \in 1..Len(container) :
        /\ i < j
        /\ container[i].timestamp < container[j].timestamp
        /\ container[i].sessionId = q.session_id
        /\ container[i].role = "user"
        /\ container[j].sessionId = q.session_id
        /\ container[j].role \in {"assistant", "error"}

SessionEchoed(q) ==
    (q.http # None /\ q.http[1].status = 200)
        => q.http[1].session_id = q.session_id

\* C9 as stated: after a chat turn has finished, the store holds a "user"
\* Message and a later "assistant" or "error" Message with the turn's
\* session id, and on success the session id returned is the request's.
C9_TurnStored ==
    \A r \in Requests :
        (req[r].kind = "chat" /\ req[r].pc = "done")
            => (TurnStored(req[r]) /\ SessionEchoed(req[r]))

NoWriteFailed(q) ==
    cosmos_enabled /\ \A i \in 1..Len(q.saves) : q.saves[i].ok

\* C9, amended: after a chat turn has finished with the store enabled and
\* none of the turn's store writes failed, the store holds a "user" Message
\* and a later "assistant" or "error" Message with the turn's session id;
\* on success the session id returned is the request's, in every case.
C9_TurnStoredWhenStoreWorks ==
    \A r \in Requests :
        (req[r].kind = "chat" /\ req[r].pc = "done")
            => /\ NoWriteFailed(req[r]) => TurnStored(req[r])
               /\ SessionEchoed(req[r])

C9_Witness ==
    \E r \in Requests :
        /\ req[r].kind = "chat"
        /\ req[r].pc = "done"
        /\ NoWriteFailed(req[r])
        /\ Len(req[r].saves) = 2
        /\ TurnStored(req[r])
        /\ req[r].http[1].status = 200
        /\ req[r].http[1].session_id = req[r].session_id

\* the number of writes the store accepted in the saves of all requests
RECURSIVE AcceptedWrites(_)
AcceptedWrites(rs) ==
    IF rs = {} THEN 0
    ELSE LET r == CHOOSE x \in rs : TRUE
         IN  Cardinality({i \in 1..Len(req[r].saves) : req[r].saves[i].ok})
             + AcceptedWrites(rs \ {r})

\* C10: save never raises: with the store disabled it stores nothing, a
\* failed write is swallowed, and every chat turn goes on to the completion
\* call and to its response.
C10_SaveNeverRaises ==
    /\ ~cosmos_enabled => container = <<>>
    /\ cosmos_enabled => Len(container) = AcceptedWrites(Requests)
    /\ \A r \in Requests :
           LET q == req[r]
           IN  q.kind = "chat" =>
                   /\ \A i \in 1..Len(q.saves) : ~q.saves[i].raised
                   /\ q.pc \in {"call", "sleep", "done"}
                   /\ q.pc = "done" =>
                          /\ HasResult(q)
                          /\ Calls(q) >= 1
                          /\ q.http # None
                          /\ Returned(q) =>
                                 /\ q.http[1].status = 200
                                 /\ q.http[1].response = q.result[1].value

C10_Witness ==
    \E r \in Requests :
        /\ req[r].kind = "chat"
        /\ req[r].pc = "done"
        /\ cosmos_enabled
        /\ Len(req[r].saves) = 2
        /\ ~req[r].saves[1].ok
        /\ ~req[r].saves[2].ok
        /\ req[r].http[1].status = 200

StoredOf(session_id) ==
    SelectSeq(container, LAMBDA c : c.sessionId = session_id)

\* the messages a finished read handed to its caller
ReadResult(q) ==
    IF q.kind = "fetch" THEN q.fetched[1].messages
    ELSE IF q.kind = "history" THEN q.http[1].messages
    ELSE <<>>

\* C11: a history read (get_last_messages_from_cosmos, the history and the
\* info endpoint) never fails: it yields the empty sequence when the store
\* is disabled, when the query fails and when the session has no stored
\* message, and with the store disabled it does not query the store.
C11_ReadsNeverFail ==
    \A r \in Requests :
        LET q == req[r]
        IN  (q.pc = "done" /\ q.kind \in {"fetch", "history", "info"})
            => /\ q.fetched # None => ~q.fetched[1].raised
               /\ q.kind \in {"history", "info"} =>
                      (q.http # None /\ q.http[1].status = 200)
               /\ ~cosmos_enabled =>
                      /\ ReadResult(q) = <<>>
                      /\ q.fetched # None => ~q.fetched[1].contacted
                      /\ q.kind = "info" => q.http[1].message_count = 0
               /\ (q.fetched # None /\ ~q.fetched[1].ok) =>
                      /\ ReadResult(q) = <<>>
                      /\ q.kind = "info" => q.http[1].message_count = 0
               /\ StoredOf(q.session_id) = <<>> => ReadResult(q) = <<>>

C11_Witness ==
    \E r \in Requests :
        /\ req[r].kind = "history"
        /\ req[r].pc = "done"
        /\ cosmos_enabled
        /\ req[r].fetched # None
        /\ ~req[r].fetched[1].ok
        /\ req[r].fetched[1].limit > 0
        /\ StoredOf(req[r].session_id) # <<>>
        /\ req[r].http[1].status = 200
        /\ req[r].http[1].messages = <<>>

Range(seq) == {seq[i] : i \in 1..Len(seq)}

\* at most limit Messages, all stored ones of the session, oldest first
BoundedSessionSorted(f) ==
    /\ Len(f.messages) <= f.limit
    /\ Range(f.messages) \subseteq Range(StoredOf(f.session_id))
    /\ \A i, j \in 1..Len(f.messages) :
           i < j => /\ f.messages[i].timestamp <= f.messages[j].timestamp
                    /\ f.messages[i] # f.messages[j]

\* the messages are the limit most recent ones of the session
MostRecent(f) ==
    LET all == StoredOf(f.session_id)
    IN  /\ Len(f.messages) = IF f.limit < Len(all) THEN f.limit ELSE Len(all)
        /\ \A x \in Range(all) \ Range(f.messages) :
               \A y \in Range(f.messages) : x.timestamp <= y.timestamp

\* C12 as stated: for any store content and limit, the read returns at most
\* limit Messages, all of the session, which are the limit most recent ones
\* by timestamp, oldest first.
C12_MostRecentSorted ==
    \A r \in Requests :
        (req[r].kind = "fetch" /\ req[r].pc = "done")
            => (BoundedSessionSorted(req[r].fetched[1]) /\ MostRecent(req[r].fetched[1]))

\* C12, amended: for any store content and limit, the read returns at most
\* limit Messages, all of the session, oldest first; when the store is
\* enabled and the query succeeds they are the limit most recent ones by
\* timestamp, otherwise there are none.
C12_MostRecentSortedWhenQueried ==
    \A r \in Requests :
        (req[r].kind = "fetch" /\ req[r].pc = "done")
            => LET f == req[r].fetched[1]
               IN  /\ BoundedSessionSorted(f)
                   /\ IF cosmos_enabled /\ f.ok
                      THEN MostRecent(f)
                      ELSE f.messages = <<>>

C12_Witness ==
    \E r \in Requests :
        /\ req[r].kind = "fetch"
        /\ req[r].pc = "done"
        /\ cosmos_enabled
        /\ req[r].fetched[1].ok
        /\ req[r].fetched[1].limit = 2
        /\ Len(StoredOf(req[r].session_id)) = 3
        /\ Len(container) = 4
        /\ Len(req[r].fetched[1].messages) = 2
        /\ req[r].fetched[1].messages[1].timestamp < req[r].fetched[1].messages[2].timestamp
        /\ MostRecent(req[r].fetched[1])

\* C13: warm-up makes exactly one completion call, with no delay and no
\* retry; it yields true when the call returns a response and false when it
\* raises, and no exception leaves it.
C13_WarmupSingleAttempt ==
    \A r \in Requests :
        LET q == req[r]
        IN  q.kind = "warmup" =>
                /\ q.pc \in {"call", "done"}
                /\ q.sleeps = <<>>
                /\ Calls(q) = IF q.pc = "done" THEN 1 ELSE 0
                /\ q.pc = "done" =>
                       /\ q.http # None
                       /\ q.http[1].status = 200
                       /\ q.http[1].success = (q.outcomes[1].kind = "text")
                       /\ q.http[1].success = Returned(q)

C13_Witness ==
    \E r1, r2 \in Requests :
        /\ req[r1].kind = "warmup"
        /\ req[r1].pc = "done"
        /\ req[r1].outcomes = << [kind |-> "text", value |-> WeakText1] >>
        /\ req[r1].http[1].success
        /\ req[r2].kind = "warmup"
        /\ req[r2].pc = "done"
        /\ req[r2].outcomes = << [kind |-> "error", value |-> Timeout] >>
        /\ ~req[r2].http[1].success

\* C14: stored Messages are append-only: every step of every operation
\* leaves each stored Message in the store with its fields unchanged.
C14_AppendOnly ==
    [][/\ Len(container') >= Len(container)
       /\ SubSeq(container', 1, Len(container)) = container]_vars

C14_Witness ==
    \E r \in Requests :
        /\ req[r].kind = "clear"
        /\ req[r].pc = "done"
        /\ Len(StoredOf(req[r].session_id)) = 2

InFlight(q) == q.pc \in {"call", "sleep"}

\* the ids of the session's Messages stored up to the one with id upto
SessionIdsUpTo(session_id, upto) ==
    {container[i].id : i \in {k \in 1..Len(container) :
                                 /\ container[k].sessionId = session_id
                                 /\ container[k].id <= upto}}

\* C15: there is no session-level mutual exclusion: while a chat turn of a
\* session is in flight, another chat turn for the same session is
\* admitted, and the context read by a turn whose user Message was stored
\* is the session as stored when the turn started, whatever other turns
\* were in flight; so both user
\* Messages can be stored before either outcome Message, and one turn's
\* context can hold the other turn's user message without its answer (the
\* witness).
C15_NoSessionLock ==
    /\ \A r1, r2 \in Requests :
           (/\ r1 # r2
            /\ req[r1].kind = "chat"
            /\ InFlight(req[r1])
            /\ req[r2].pc = "idle")
           => ChatAdmitted(r2, req[r1].session_id)
    /\ \A r \in Requests :
           LET q == req[r]
               ids == {q.cosmos_messages[i].id : i \in 1..Len(q.cosmos_messages)}
           IN  (/\ q.kind = "chat"
                /\ q.cosmos_messages # <<>>
                /\ q.saves[1].id # 0)
               => LET stored == SessionIdsUpTo(q.session_id, q.saves[1].id)
                  IN  /\ ids \subseteq stored
                      /\ Cardinality(stored) <= ContextLimit => ids = stored

C15_Witness ==
    \E r1, r2 \in Requests :
        /\ r1 # r2
        /\ req[r1].kind = "chat" /\ req[r2].kind = "chat"
        /\ req[r1].session_id = req[r2].session_id
        /\ InFlight(req[r1]) /\ InFlight(req[r2])
        /\ req[r1].saves[1].id # 0 /\ req[r2].saves[1].id # 0
        /\ \A i \in 1..Len(container) : container[i].role = "user"
        /\ \E i \in 1..Len(req[r2].cosmos_messages) :
               req[r2].cosmos_messages[i].id = req[r1].saves[1].id
        /\ \A i \in 1..Len(req[r2].cosmos_messages) :
               req[r2].cosmos_messages[i].role # "assistant"
        /\ Len(req[r2].chat_prompt) = 4
\* the prompt assembled from the history that the controller read
PromptOf(q) ==
    <<[role |-> "system", content |-> prompt_content]>>
    \o [i \in 1..Len(q.cosmos_messages) |->
           [role |-> q.cosmos_messages[i].role,
            content |-> q.cosmos_messages[i].content]]
    \o <<[role |-> "user", content |-> q.user_input]>>

\* C16: within one call of the retry controller the history is read exactly
\* once, before the first attempt, and every attempt sends the identical
\* prompt, the one assembled from that read: neither Messages stored by
\* other requests between attempts nor the weak responses and errors of
\* earlier attempts change the prompt of a retry.
C16_PromptFixedPerCall ==
    \A r \in Requests :
        LET q == req[r]
        IN  q.kind \in {"chat", "warmup", "call"}
            => /\ q.history_reads = 1
               /\ Len(q.prompts) = Calls(q)
               /\ \A i \in 1..Len(q.prompts) : q.prompts[i] = PromptOf(q)
               /\ InFlight(q) => q.chat_prompt = PromptOf(q)

\* a third attempt is sent after a transport error and a weak response,
\* while another request has stored a Message of the session since the read
C16_Witness ==
    \E r \in Requests :
        LET q == req[r]
        IN  /\ q.kind = "chat"
            /\ cosmos_enabled
            /\ Len(q.prompts) = 3
            /\ q.outcomes[1].kind = "error"
            /\ q.outcomes[2] = [kind |-> "text", value |-> WeakText1]
            /\ q.cosmos_messages # <<>>
            /\ BuildPrompt(cosmos_enabled, container, q.session_id,
                           q.user_input, TRUE) # q.prompts[3]
            /\ q.prompts[3] = q.prompts[1]

\* C17: in every run of the retry controller there is no delay before the
\* first attempt and exactly one delay, of the same fixed length (2 by
\* default), immediately before each later attempt, after a weak response
\* as after a transport error; the number of delays is the number of
\* completion calls minus one, and the delay does not grow with the attempt
\* index.
C17_FixedDelayBetweenAttempts ==
    \A r \in Requests :
        LET q == req[r]
        IN  q.kind = "call"
            => /\ \A i \in 1..Len(q.sleeps) :
                      /\ q.sleeps[i].attempt = i
                      /\ q.sleeps[i].seconds = 2
               /\ q.pc = "call" => Len(q.sleeps) = Calls(q)
               /\ q.pc = "sleep" => Len(q.sleeps) = Calls(q) - 1 /\ Calls(q) >= 1
               /\ HasResult(q) =>
                      Len(q.sleeps) = IF Calls(q) = 0 THEN 0 ELSE Calls(q) - 1

\* three attempts, the first weak and the second failed, with two delays
C17_Witness ==
    \E r \in Requests :
        LET q == req[r]
        IN  /\ q.kind = "call"
            /\ HasResult(q)
            /\ Calls(q) = 3
            /\ q.outcomes[1] = [kind |-> "text", value |-> WeakText1]
            /\ q.outcomes[2] = [kind |-> "error", value |-> Timeout]
            /\ q.sleeps = << [attempt |-> 1, seconds |-> 2],
                             [attempt |-> 2, seconds |-> 2] >>

\* C18: every call of the retry controller with max_retries >= 1
\* eventually ends, with a response returned (ACCEPTED) or an error raised
\* (EXHAUSTED), provided every completion call and every delay ends; during
\* a call the attempt index only increases, and the number of completion
\* calls made is at least 1 and at most max_retries.
C18_CallTerminates ==
    /\ [](\A r \in Callers :
              LET q == req[r]
              IN  (q.kind = "call" /\ q.max_retries >= 1)
                  => /\ Calls(q) <= q.max_retries
                     /\ q.attempt <= Calls(q)
                     /\ HasResult(q)
                        => /\ Calls(q) >= 1
                           /\ \/ Returned(q) /\ q.result[1].value # None
                              \/ Raised(q))
    /\ [][\A r \in Callers :
              InFlight(req[r]) => req'[r].attempt >= req[r].attempt]_vars
    /\ \A r \in Callers :
           (InFlight(req[r]) /\ req[r].max_retries >= 1) ~> HasResult(req[r])

\* a call with max_retries = 3 that has ended after its third completion
\* call, the index having advanced to the last attempt
C18_Witness ==
    \E r \in Callers :
        LET q == req[r]
        IN  /\ q.kind = "call"
            /\ q.max_retries = 3
            /\ HasResult(q)
            /\ Calls(q) = 3
            /\ q.attempt = 2

\* what the last completion call made by q produced: its response, or the
\* error it ended in
LastCallResult(q) ==
    LET o == LastOutcome(q)
    IN  IF o.kind = "text"
        THEN [kind |-> "return", value |-> Some(o.value)]
        ELSE [kind |-> "raise",
              value |-> Some(IF o.kind = "none" THEN NoneTypeError ELSE o.value)]

C20_UserMessageOnce ==
    \A r \in Requests :
        LET q == req[r]
        IN  (/\ q.kind = "chat"
             /\ InFlight(q)
             /\ cosmos_enabled
             /\ q.saves[1].id # 0)
            => /\ q.chat_prompt = PromptOf(q)
               /\ Len(q.cosmos_messages) <= 5
               /\ \A i, j \in 1..Len(q.cosmos_messages) :
                      i < j => q.cosmos_messages[i].timestamp
                                   <= q.cosmos_messages[j].timestamp
               /\ \A i \in 1..Len(q.cosmos_messages) :
                      q.cosmos_messages[i].id # q.saves[1].id

====
